---- MODULE Spec2Model ----
(***************************************************************************)
(* Battle decision modules of Showdown-ChatBot:                            *)
(*   human-like-battle-ai.js  (module "humanlike" below)                   *)
(*   random-switch.js         (module "randomsw")                          *)
(*   unnamed/part_000         (module "competitive")                       *)
(* Each exports setup(), which builds one BattleModule owning its private  *)
(* state (recentDecisions, turnCount) and a decide(battle, decisions).     *)
(*                                                                         *)
(* Numbers.  JavaScript numbers are modelled in fixed point: a score x is  *)
(* held as the integer x * Scale.  Every division goes through an exact    *)
(* division whose CASE has no OTHER arm, so that an input on which the     *)
(* fixed point would round stops TLC instead of passing unnoticed.  Type   *)
(* effectiveness is held in quarters (EffUnit = 1.0).                      *)
(***************************************************************************)
EXTENDS Integers, Sequences, FiniteSets, TLC

Scale == 100 * 100

EffUnit == 2 * 2

Num(n) == n * Scale

\* x / d, exact
Quot(x, d) == CASE x % d = 0 -> x \div d

\* x * n / d, exact; divides first when it can, to stay within 32 bits
Frac(x, n, d) == CASE x % d = 0 -> (x \div d) * n
                   [] x % d # 0 /\ (x * n) % d = 0 -> (x * n) \div d

Max(a, b) == IF a >= b THEN a ELSE b

Min(a, b) == IF a <= b THEN a ELSE b

RECURSIVE SumSeq(_)
SumSeq(s) == IF s = <<>> THEN 0 ELSE Head(s) + SumSeq(Tail(s))

Range(s) == {s[i] : i \in 1..Len(s)}

\* Array.prototype.slice(-n): the last n elements
SliceLast(s, n) == IF Len(s) <= n THEN s ELSE SubSeq(s, Len(s) - n + 1, Len(s))

\* Array.prototype.filter(d => d === x).length
CountOf(s, x) == Cardinality({i \in 1..Len(s) : s[i] = x})

(***************************************************************************)
(* typeChart: factor of an attacking type against a defending type, in     *)
(* halves (0.5 -> 1, 2 -> 4, 0 -> 0); a pair that is not listed is         *)
(* neutral.  The three files carry the same chart.                         *)
(***************************************************************************)
typeChart ==
  [Normal   |-> [Rock |-> 1, Ghost |-> 0, Steel |-> 1],
   Fire     |-> [Fire |-> 1, Water |-> 1, Grass |-> 4, Ice |-> 4, Bug |-> 4,
                 Rock |-> 1, Dragon |-> 1, Steel |-> 4],
   Water    |-> [Fire |-> 4, Water |-> 1, Grass |-> 1, Ground |-> 4, Rock |-> 4,
                 Dragon |-> 1],
   Electric |-> [Water |-> 4, Electric |-> 1, Grass |-> 1, Ground |-> 0,
                 Flying |-> 4, Dragon |-> 1],
   Grass    |-> [Fire |-> 1, Water |-> 4, Grass |-> 1, Poison |-> 1, Ground |-> 4,
                 Flying |-> 1, Bug |-> 1, Rock |-> 4, Dragon |-> 1, Steel |-> 1],
   Ice      |-> [Fire |-> 1, Water |-> 1, Grass |-> 4, Ice |-> 1, Ground |-> 4,
                 Flying |-> 4, Dragon |-> 4, Steel |-> 1],
   Fighting |-> [Normal |-> 4, Ice |-> 4, Poison |-> 1, Flying |-> 1, Psychic |-> 1,
                 Bug |-> 1, Rock |-> 4, Ghost |-> 0, Dark |-> 4, Steel |-> 4,
                 Fairy |-> 1],
   Poison   |-> [Grass |-> 4, Poison |-> 1, Ground |-> 1, Rock |-> 1, Ghost |-> 1,
                 Steel |-> 0, Fairy |-> 4],
   Ground   |-> [Fire |-> 4, Electric |-> 4, Grass |-> 1, Poison |-> 4, Flying |-> 0,
                 Bug |-> 1, Rock |-> 4, Steel |-> 4],
   Flying   |-> [Electric |-> 1, Grass |-> 4, Ice |-> 1, Fighting |-> 4, Bug |-> 4,
                 Rock |-> 1, Steel |-> 1],
   Psychic  |-> [Fighting |-> 4, Poison |-> 4, Psychic |-> 1, Dark |-> 0, Steel |-> 1],
   Bug      |-> [Fire |-> 1, Grass |-> 4, Fighting |-> 1, Poison |-> 1, Flying |-> 1,
                 Psychic |-> 4, Ghost |-> 1, Dark |-> 4, Steel |-> 1, Fairy |-> 1],
   Rock     |-> [Normal |-> 1, Fire |-> 4, Water |-> 4, Grass |-> 1, Ice |-> 4,
                 Fighting |-> 1, Poison |-> 1, Ground |-> 1, Flying |-> 4, Bug |-> 4,
                 Steel |-> 1],
   Ghost    |-> [Normal |-> 0, Psychic |-> 4, Ghost |-> 4, Dark |-> 1],
   Dragon   |-> [Dragon |-> 4, Steel |-> 1, Fairy |-> 0],
   Dark     |-> [Fighting |-> 1, Psychic |-> 4, Ghost |-> 4, Dark |-> 1, Fairy |-> 1],
   Steel    |-> [Fire |-> 1, Water |-> 1, Electric |-> 1, Ice |-> 4, Rock |-> 4,
                 Steel |-> 1, Fairy |-> 4],
   Fairy    |-> [Fire |-> 1, Fighting |-> 4, Poison |-> 1, Dragon |-> 4, Dark |-> 4,
                 Steel |-> 1]]

\* A loop that stops after the first target type
EffLoopFirstOnly(moveType, targetTypes, effectiveness) ==
  IF targetTypes = <<>> THEN effectiveness
  ELSE IF targetTypes[1] \in DOMAIN typeChart[moveType]
       THEN Frac(effectiveness, typeChart[moveType][targetTypes[1]], 2)
       ELSE effectiveness

\* effectiveness *= typeChart[moveType][type], over targetTypes.forEach
RECURSIVE EffLoop(_, _, _)
EffLoop(moveType, targetTypes, effectiveness) ==
  IF targetTypes = <<>> THEN effectiveness
  ELSE LET type == Head(targetTypes)
           next == IF type \in DOMAIN typeChart[moveType]
                   THEN Frac(effectiveness, typeChart[moveType][type], 2)
                   ELSE effectiveness
       IN  EffLoop(moveType, Tail(targetTypes), next)

\* getTypeEffectiveness of part_000; "" is an absent (undefined) move type
getTypeEffectivenessC(moveType, targetTypes) ==
  IF moveType \in DOMAIN typeChart
  THEN EffLoop(moveType, targetTypes, EffUnit)
  ELSE EffUnit

\* getTypeEffectiveness of human-like-battle-ai.js and random-switch.js; the
\* caller tests targetTypes before the call, so only !moveType is kept here
getTypeEffectiveness(moveType, targetTypes) ==
  IF moveType = "" THEN EffUnit
  ELSE IF moveType \in DOMAIN typeChart
       THEN EffLoop(moveType, targetTypes, EffUnit)
       ELSE EffUnit

(***************************************************************************)
(* Data supplied by the caller.  A field the JavaScript object lacks is    *)
(* held as the falsy value the code tests for: 0, FALSE, "" or <<>>; an    *)
(* absent object is a record whose present field is FALSE.                 *)
(***************************************************************************)
NoMove ==
  [present |-> FALSE, name |-> "", id |-> "", category |-> "", type |-> "",
   basePower |-> 0, accuracy |-> 0, priority |-> 0, heal |-> FALSE,
   status |-> "", boosts |-> FALSE, selfBoosts |-> FALSE]

Move(name, id, category, type, basePower, accuracy, priority) ==
  [NoMove EXCEPT !.present = TRUE, !.name = name, !.id = id,
                 !.category = category, !.type = type, !.basePower = basePower,
                 !.accuracy = accuracy, !.priority = priority]

Surf == Move("Surf", "surf", "Special", "Water", 90, 100, 0)

Thunder == Move("Thunder", "thunder", "Special", "Electric", 110, 70, 0)

QuickAttack == Move("Quick Attack", "quickattack", "Physical", "Normal", 40, 100, 1)

Tackle == Move("Tackle", "tackle", "Physical", "Normal", 40, 100, 0)

Recover == [Move("Recover", "recover", "Status", "Normal", 0, 0, 0)
              EXCEPT !.heal = TRUE]

Toxic == [Move("Toxic", "toxic", "Status", "Poison", 0, 90, 0)
            EXCEPT !.status = "tox"]

SwordsDance == [Move("Swords Dance", "swordsdance", "Status", "Normal", 0, 0, 0)
                  EXCEPT !.boosts = TRUE]

StealthRock == Move("Stealth Rock", "stealthrock", "Status", "Rock", 0, 0, 0)

NoStats == [present |-> FALSE, atk |-> 0, def |-> 0, spa |-> 0, spd |-> 0, spe |-> 0]

Stats(atk, def, spa, spd, spe) ==
  [present |-> TRUE, atk |-> atk, def |-> def, spa |-> spa, spd |-> spd, spe |-> spe]

\* hasTypes = FALSE: the types field is missing; level 0: the level is missing
NoPoke ==
  [present |-> FALSE, name |-> "", hp |-> 0, maxhp |-> 0, hasTypes |-> FALSE,
   types |-> <<>>, fainted |-> FALSE, status |-> "", stats |-> NoStats,
   level |-> 0, moves |-> <<>>, ability |-> "", setup |-> FALSE]

Poke(name, hp, maxhp, types, stats, moves) ==
  [NoPoke EXCEPT !.present = TRUE, !.name = name, !.hp = hp, !.maxhp = maxhp,
                 !.hasTypes = TRUE, !.types = types, !.stats = stats,
                 !.moves = moves]

\* One action of an ActionSet: {type, move} | {type, pokemon} | {type: "team"} |
\* {type: "pass"}
MoveAction(m) == [type |-> "move", move |-> m, pokemon |-> NoPoke]

SwitchAction(p) == [type |-> "switch", move |-> NoMove, pokemon |-> p]

TeamAction == [type |-> "team", move |-> NoMove, pokemon |-> NoPoke]

PassAction == [type |-> "pass", move |-> NoMove, pokemon |-> NoPoke]

\* One side of the battle: active[0] is active, pokemon the whole team
Side(n, currentRequest, active, pokemon, sideConditions) ==
  [n |-> n, currentRequest |-> currentRequest, active |-> active,
   pokemon |-> pokemon, sideConditions |-> sideConditions]

NoSide == [present |-> FALSE, side |-> Side(0, FALSE, NoPoke, <<>>, {})]

\* battle.sides.find(s => s.currentRequest)
FindSide(battle) ==
  IF battle.sides[1].currentRequest
  THEN [present |-> TRUE, side |-> battle.sides[1]]
  ELSE IF battle.sides[2].currentRequest
       THEN [present |-> TRUE, side |-> battle.sides[2]]
       ELSE NoSide

\* battle.sides[1 - side.n]
OtherSide(battle, side) == battle.sides[(1 - side.n) + 1]

(***************************************************************************)
(* human-like-battle-ai.js and random-switch.js: the scorers.              *)
(* recentDecisions is the module's history, passed explicitly.             *)
(***************************************************************************)
\* Multipliers are held in tenths.
\* The penalty counted over the 3 most recent entries
getRepetitionPenaltyOverThree(moveName, recentDecisions) ==
  IF moveName = "" THEN 10
  ELSE LET repetitions == CountOf(SliceLast(recentDecisions, 3), moveName)
       IN  IF repetitions >= 3 THEN 1
           ELSE IF repetitions >= 2 THEN 2
           ELSE IF repetitions >= 1 THEN 5
           ELSE 10

\* The penalty counted over the 5 most recent entries
getRepetitionPenaltyOverFive(moveName, recentDecisions) ==
  IF moveName = "" THEN 10
  ELSE LET repetitions == CountOf(SliceLast(recentDecisions, 5), moveName)
       IN  IF repetitions >= 3 THEN 1
           ELSE IF repetitions >= 2 THEN 2
           ELSE IF repetitions >= 1 THEN 5
           ELSE 10

\* human-like: slice(-4); 3+ -> 0.1, 2 -> 0.2, 1 -> 0.5, else 1
getRepetitionPenalty(moveName, recentDecisions) ==
  IF moveName = "" THEN 10
  ELSE LET recent == SliceLast(recentDecisions, 4)
           repetitions == CountOf(recent, moveName)
       IN  IF repetitions >= 3 THEN 1
           ELSE IF repetitions >= 2 THEN 2
           ELSE IF repetitions >= 1 THEN 5
           ELSE 10

\* random-switch: slice(-3); 2+ -> 0.3, 1 -> 0.7, else 1
getRepetitionPenaltyRS(moveName, recentDecisions) ==
  IF moveName = "" THEN 10
  ELSE LET recent == SliceLast(recentDecisions, 3)
           repetitions == CountOf(recent, moveName)
       IN  IF repetitions >= 2 THEN 3
           ELSE IF repetitions >= 1 THEN 7
           ELSE 10

\* The Status branch, shared by both files: the bonus added to the base score
StatusBonus(move, user, opponent) ==
  IF move.heal /\ 10 * user.hp < 6 * user.maxhp THEN Num(60)
  ELSE IF move.status # "" /\ opponent.status = "" THEN Num(40)
  ELSE IF move.boosts \/ move.selfBoosts
       THEN IF 10 * user.hp > 7 * user.maxhp THEN Num(50) ELSE Num(10)
  ELSE IF move.id \in {"stealthrock", "spikes", "toxicspikes"} THEN Num(35)
  ELSE Num(20)

\* human-like: the bonus or penalty of the type matchup
MatchupBonus(move, opponent) ==
  IF opponent.present /\ opponent.hasTypes
  THEN LET effectiveness == getTypeEffectiveness(move.type, opponent.types)
       IN  IF effectiveness >= 2 * EffUnit THEN Num(60)
           ELSE IF effectiveness > EffUnit THEN Num(30)
           ELSE IF 2 * effectiveness < EffUnit THEN 0 - Num(40)
           ELSE IF effectiveness < EffUnit THEN 0 - Num(15)
           ELSE 0
  ELSE 0

\* random-switch: +30 * effectiveness above 1, -20 * (1 - effectiveness) below
MatchupBonusRS(move, opponent) ==
  IF opponent.present /\ opponent.hasTypes
  THEN LET effectiveness == getTypeEffectiveness(move.type, opponent.types)
       IN  IF effectiveness > EffUnit THEN Frac(Num(30), effectiveness, EffUnit)
           ELSE IF effectiveness < EffUnit
                THEN 0 - Frac(Num(20), EffUnit - effectiveness, EffUnit)
           ELSE 0
  ELSE 0

\* The attack branch up to the priority bonus; matchup is the file's own
AttackBonus(move, user, matchup) ==
  (IF move.basePower # 0
   THEN Min(Frac(Num(move.basePower), 4, 10), Num(40)) + matchup
        + (IF user.hasTypes /\ move.type \in Range(user.types) THEN Num(15) ELSE 0)
   ELSE 0)
  + (IF move.priority > 0 /\ 10 * user.hp < 4 * user.maxhp THEN Num(25) ELSE 0)

\* score *= accuracy / 100 when the accuracy is given and below 100
AccuracyScaled(score, move) ==
  IF move.accuracy # 0 /\ move.accuracy < 100
  THEN Frac(score, move.accuracy, 100)
  ELSE score

\* The score before the repetition multiplier (human-like)
MoveRawScore(move, user, opponent) ==
  AccuracyScaled(
    Num(30) + (IF move.category = "Status"
               THEN StatusBonus(move, user, opponent)
               ELSE AttackBonus(move, user, MatchupBonus(move, opponent))),
    move)

evaluateMove(decision, user, opponent, recentDecisions) ==
  IF ~decision.move.present THEN Num(10)
  ELSE LET move == decision.move
           repetitionMultiplier == getRepetitionPenalty(move.name, recentDecisions)
           finalScore == Frac(MoveRawScore(move, user, opponent),
                              repetitionMultiplier, 10)
       IN  Max(finalScore, Num(1))

evaluateMoveRS(decision, user, opponent, recentDecisions) ==
  IF ~decision.move.present THEN Num(10)
  ELSE LET move == decision.move
           repetitionMultiplier == getRepetitionPenaltyRS(move.name, recentDecisions)
           raw == AccuracyScaled(
                    Num(30) + (IF move.category = "Status"
                               THEN StatusBonus(move, user, opponent)
                               ELSE AttackBonus(move, user,
                                                MatchupBonusRS(move, opponent))),
                    move)
           penalised == Frac(raw, repetitionMultiplier, 10)
           score == IF move.category # "Status" /\ repetitionMultiplier = 10
                    THEN penalised + Num(10)
                    ELSE penalised
       IN  Max(score, Num(5))

\* evaluateMove reads user.hp and user.types without testing user: with no
\* active combatant these reads raise a TypeError (both files)
evaluateMoveThrows(decision, user, opponent) ==
  LET move == decision.move
  IN  /\ move.present
      /\ ~user.present
      /\ IF move.category = "Status"
         THEN \/ move.heal
              \/ /\ ~(move.status # "" /\ opponent.status = "")
                 /\ (move.boosts \/ move.selfBoosts)
         ELSE move.basePower # 0 \/ move.priority > 0

\* switchPokemon === user: the same object of the team
SamePoke(p, q) == p.present /\ q.present /\ p.name = q.name

\* The body of evaluateSwitch for a valid target, before the final Math.max
SwitchRawScore(switchPokemon, user, opponent) ==
  LET hpPart == Frac(Num(30), switchPokemon.hp, switchPokemon.maxhp)
      statusPart == IF switchPokemon.status # "" THEN 0 - Num(20) ELSE 0
      matchup ==
        IF opponent.present /\ opponent.hasTypes /\ switchPokemon.hasTypes
        THEN LET ot == opponent.types
                 st == switchPokemon.types
                 resist(o, m) ==
                   LET resistance == getTypeEffectiveness(ot[o], <<st[m]>>)
                   IN  IF resistance < EffUnit THEN Num(15)
                       ELSE IF resistance > EffUnit THEN 0 - Num(10)
                       ELSE 0
                 defensive ==
                   SumSeq([o \in 1..Len(ot) |->
                             SumSeq([m \in 1..Len(st) |-> resist(o, m)])])
                 offensive ==
                   SumSeq([m \in 1..Len(st) |->
                             IF getTypeEffectiveness(st[m], ot) > EffUnit
                             THEN Num(10) ELSE 0])
             IN  defensive + offensive
        ELSE 0
      emergency == IF user.present /\ 100 * user.hp < 25 * user.maxhp
                   THEN Num(40) ELSE 0
      healthy == IF user.present /\ 10 * user.hp > 8 * user.maxhp
                 THEN 0 - Num(15) ELSE 0
  IN  Num(20) + hpPart + statusPart + matchup + emergency + healthy

\* evaluateSwitch without its last line, Math.max(score, 5)
evaluateSwitchUnfloored(decision, user, opponent) ==
  IF ~decision.pokemon.present THEN Num(5)
  ELSE IF decision.pokemon.fainted \/ SamePoke(decision.pokemon, user) THEN 0
  ELSE SwitchRawScore(decision.pokemon, user, opponent)

\* evaluateSwitch, the same text in both files
evaluateSwitch(decision, user, opponent) ==
  IF ~decision.pokemon.present THEN Num(5)
  ELSE IF decision.pokemon.fainted \/ SamePoke(decision.pokemon, user) THEN 0
  ELSE Max(SwitchRawScore(decision.pokemon, user, opponent), Num(5))

(***************************************************************************)
(* unnamed/part_000: the competitive scorer.                               *)
(***************************************************************************)
\* attacker.stats?.atk || 100
StatOr100(v) == IF v = 0 THEN 100 ELSE v

\* defender.types || ['Normal']
TypesOrNormal(p) == IF p.hasTypes THEN p.types ELSE <<"Normal">>

\* calculateDamage.  With L = level, S = 2 * STAB (2 or 3), e = effectiveness
\* in quarters, the code's
\*   floor((((2L/5 + 2) * power * atk / def) / 50 + 2) * effectiveness)
\* is floor(((L + 5) * bp * S * e * atk + 2000 * def) * e / (4000 * def)).
calculateDamage(attacker, defender, move) ==
  IF move.basePower = 0 THEN 0
  ELSE LET physical == move.category = "Physical"
           attackStat == StatOr100(IF physical THEN attacker.stats.atk
                                   ELSE attacker.stats.spa)
           defenseStat == StatOr100(IF physical THEN defender.stats.def
                                    ELSE defender.stats.spd)
           stab2 == IF attacker.hasTypes /\ move.type \in Range(attacker.types)
                    THEN 3 ELSE 2
           effectiveness == getTypeEffectivenessC(move.type, TypesOrNormal(defender))
           level == IF attacker.level = 0 THEN 50 ELSE attacker.level
           n == (level + 5) * move.basePower * stab2 * effectiveness * attackStat
       IN  ((n + 2000 * defenseStat) * effectiveness) \div (4000 * defenseStat)

\* Math.max over the non-Status moves
RECURSIVE MaxDamage(_, _, _)
MaxDamage(attacker, defender, moves) ==
  IF moves = <<>> THEN 0
  ELSE LET move == Head(moves)
           rest == MaxDamage(attacker, defender, Tail(moves))
       IN  IF move.category # "Status"
           THEN Max(calculateDamage(attacker, defender, move), rest)
           ELSE rest

\* A missing move list (!moves) is held as <<>>: with defender.hp > 0 both
\* give ohko = twohko = false
analyzeKOPotential(attacker, defender, moves) ==
  IF defender.hp = 0 THEN [ohko |-> FALSE, twohko |-> FALSE]
  ELSE LET maxDamage == MaxDamage(attacker, defender, moves)
       IN  [ohko |-> maxDamage >= defender.hp,
            twohko |-> 2 * maxDamage >= defender.hp]

\* predictOpponentMoves: probabilities in tenths.  battleHistory.opponentMoves
\* only feeds moveFrequency, which no prediction reads.
predictOpponentMoves(opponent) ==
  (IF 10 * opponent.hp < 3 * opponent.maxhp
   THEN <<[type |-> "switch", probability |-> 6],
          [type |-> "recovery", probability |-> 3]>>
   ELSE <<>>)
  \o (IF opponent.setup THEN <<[type |-> "setup", probability |-> 4]>> ELSE <<>>)

evaluateHazards(battle, side) ==
  LET oppSide == OtherSide(battle, side)
  IN  (IF "spikes" \in oppSide.sideConditions THEN 20 ELSE 0)
      + (IF "stealthrock" \in oppSide.sideConditions THEN 30 ELSE 0)
      + (IF "toxicspikes" \in oppSide.sideConditions THEN 15 ELSE 0)

\* team.filter(p => !p.fainted).length
Alive(team) == Cardinality({i \in 1..Len(team) : ~team[i].fainted})

\* wincons are held by name
analyzeGameState(battle, side) ==
  LET myTeam == side.pokemon
      oppTeam == OtherSide(battle, side).pokemon
      myAlive == Alive(myTeam)
      oppAlive == Alive(oppTeam)
      gamePhase == IF myAlive <= 1 \/ oppAlive <= 1 THEN "endgame"
                   ELSE IF myAlive <= 2 \/ oppAlive <= 2 THEN "late"
                   ELSE IF myAlive <= 3 \/ oppAlive <= 3 THEN "mid"
                   ELSE "early"
      wincons == {myTeam[i].name : i \in
                    {j \in 1..Len(myTeam) :
                       /\ ~myTeam[j].fainted
                       /\ \/ myTeam[j].ability = "Speed Boost"
                          \/ \E k \in 1..Len(myTeam[j].moves) :
                               myTeam[j].moves[k].boosts
                          \/ myTeam[j].stats.spe > 110}}
  IN  [gamePhase |-> gamePhase, wincons |-> wincons,
       teamBalance |-> myAlive - oppAlive]

\* The status-infliction bonus by ailment
AilmentBonus(status) ==
  IF status = "par" THEN 45
  ELSE IF status = "slp" THEN 60
  ELSE IF status = "tox" THEN 40
  ELSE IF status = "brn" THEN 35
  ELSE 0

evaluateMoveCompetitive(move, user, target, battle, side) ==
  IF ~move.present \/ ~target.present THEN 0
  ELSE
  LET gameState == analyzeGameState(battle, side)
      damage == calculateDamage(user, target, move)
      damagePart ==
        IF move.category # "Status" /\ move.basePower # 0
        THEN Frac(Num(100), damage, target.hp)
             + (IF damage >= target.hp THEN Num(150)
                ELSE IF 2 * damage >= target.hp THEN Num(50)
                ELSE 0)
        ELSE 0
      statusPart ==
        IF move.category = "Status"
        THEN (IF move.name \in {"Stealth Rock", "Spikes", "Toxic Spikes"}
              THEN Num(Max(60 - evaluateHazards(battle, side), 10)) ELSE 0)
             + (IF (move.boosts \/ move.selfBoosts)
                   /\ gameState.gamePhase = "early"
                   /\ 10 * user.hp > 8 * user.maxhp
                THEN Num(70) ELSE 0)
             + (IF move.status # "" /\ target.status = ""
                THEN Num(AilmentBonus(move.status)) ELSE 0)
             + (IF move.heal /\ 10 * user.hp < 6 * user.maxhp
                THEN Num(80) ELSE 0)
        ELSE 0
      priorityPart ==
        IF move.priority > 0
           /\ (gameState.gamePhase = "late" \/ 10 * user.hp < 5 * user.maxhp)
        THEN Num(40) ELSE 0
      mainType == IF user.hasTypes /\ user.types # <<>> THEN user.types[1] ELSE ""
      mainEffectiveness == getTypeEffectivenessC(mainType, TypesOrNormal(target))
      moveEffectiveness == getTypeEffectivenessC(move.type, TypesOrNormal(target))
      coveragePart ==
        IF mainEffectiveness < EffUnit /\ moveEffectiveness > mainEffectiveness
        THEN Num(30) ELSE 0
      predictions == predictOpponentMoves(target)
      predictionPart ==
        SumSeq([i \in 1..Len(predictions) |->
                  IF predictions[i].type = "switch" /\ move.category # "Status"
                  THEN Frac(Num(20), predictions[i].probability, 10)
                  ELSE 0])
      score == damagePart + statusPart + priorityPart + coveragePart
               + predictionPart
      scaled == IF move.accuracy # 0 /\ move.accuracy < 90
                THEN Frac(score, move.accuracy, 100)
                ELSE score
  IN  Max(scaled, Num(1))

\* user.types?.[0] (line 228) is read for every move that has a target: with
\* no active combatant it raises a TypeError
evaluateMoveCompetitiveThrows(move, user, target) ==
  move.present /\ target.present /\ ~user.present

evaluateSwitchCompetitive(switchPokemon, currentPokemon, opponent, battle, side) ==
  IF ~switchPokemon.present \/ switchPokemon.fainted
     \/ SamePoke(switchPokemon, currentPokemon)
  THEN 0
  ELSE
  LET gameState == analyzeGameState(battle, side)
      hpPart == Frac(Num(40), switchPokemon.hp, switchPokemon.maxhp)
      statusPart == IF switchPokemon.status # "" THEN 0 - Num(35) ELSE 0
      koAnalysis == analyzeKOPotential(opponent, switchPokemon, opponent.moves)
      offensiveKO == analyzeKOPotential(switchPokemon, opponent, switchPokemon.moves)
      synergy ==
        IF opponent.present
        THEN (IF ~koAnalysis.ohko THEN Num(50) ELSE 0)
             + (IF ~koAnalysis.twohko THEN Num(25) ELSE 0)
             + (IF offensiveKO.ohko THEN Num(70) ELSE 0)
             + (IF offensiveKO.twohko THEN Num(35) ELSE 0)
        ELSE 0
      emergency == IF 10 * currentPokemon.hp < 3 * currentPokemon.maxhp
                   THEN Num(60) ELSE 0
      speed == IF switchPokemon.stats.spe > StatOr100(opponent.stats.spe)
               THEN Num(30) ELSE 0
      wincon == IF switchPokemon.name \in gameState.wincons THEN Num(40) ELSE 0
      hazardDamage == evaluateHazards(battle, side)
      late == IF gameState.gamePhase \in {"late", "endgame"} THEN Num(20) ELSE 0
      score == hpPart + statusPart + synergy + emergency + speed + wincon
               - Frac(Num(hazardDamage), 1, 2) - late
  IN  Max(score, Num(1))

\* currentPokemon.hp (line 282) is read for every valid switch
evaluateSwitchCompetitiveThrows(switchPokemon, currentPokemon) ==
  /\ switchPokemon.present /\ ~switchPokemon.fainted
  /\ ~currentPokemon.present

getDecisionValue(decision, battle, side) ==
  LET currentPokemon == side.active
      opponent == OtherSide(battle, side).active
  IN  IF decision.type = "team" THEN Num(5000)
      ELSE IF decision.type = "move"
      THEN evaluateMoveCompetitive(decision.move, currentPokemon, opponent,
                                   battle, side)
      ELSE IF decision.type = "switch"
      THEN evaluateSwitchCompetitive(decision.pokemon, currentPokemon, opponent,
                                     battle, side)
      ELSE Num(15)

getDecisionValueThrows(decision, battle, side) ==
  LET currentPokemon == side.active
      opponent == OtherSide(battle, side).active
  IN  \/ /\ decision.type = "move"
         /\ evaluateMoveCompetitiveThrows(decision.move, currentPokemon, opponent)
      \/ /\ decision.type = "switch"
         /\ evaluateSwitchCompetitiveThrows(decision.pokemon, currentPokemon)

(***************************************************************************)
(* decide(battle, decisions).  The call is split in two: Evaluate covers   *)
(* the code up to the weighted draw, Settle the draw and what follows.     *)
(*                                                                         *)
(* The draw.  random = Math.random() * totalWeight lies in                 *)
(* [0, totalWeight) and the loop returns the first index whose cumulative  *)
(* weight reaches it.  The model's input is that index (land) instead of   *)
(* the real number: index i can be returned exactly when it is the first   *)
(* one (Math.random() = 0) or its weight is positive.  land = 0 says that  *)
(* the loop ended without returning, which takes NaN weights: every        *)
(* comparison with NaN is false.                                           *)
(***************************************************************************)
HistoryCapacity == 6

HistoryCapacityRS == 5

\* A weight is (num / den) ^ exp, or NaN
Weight(num, den, exp) == [nan |-> FALSE, num |-> num, den |-> den, exp |-> exp]

NaNWeight == [nan |-> TRUE, num |-> 0, den |-> 0, exp |-> 0]

\* Math.pow(base / 10, index) in fixed point
RECURSIVE PowTenths(_, _)
PowTenths(base, index) ==
  IF index = 0 THEN Scale ELSE Frac(PowTenths(base, index - 1), base, 10)

\* The score of one action in human-like-battle-ai.js and random-switch.js
ActionScore(module, decision, user, opponent, recentDecisions) ==
  IF decision.type = "team" THEN Num(5000)
  ELSE IF decision.type = "move"
  THEN IF module = "humanlike"
       THEN evaluateMove(decision, user, opponent, recentDecisions)
       ELSE evaluateMoveRS(decision, user, opponent, recentDecisions)
  ELSE IF decision.type = "switch" THEN evaluateSwitch(decision, user, opponent)
  ELSE Num(10)

ActionThrows(decision, user, opponent) ==
  decision.type = "move" /\ evaluateMoveThrows(decision, user, opponent)

\* evaluatedDecisions.sort((a, b) => b.score - a.score): stable, descending
RECURSIVE InsertByScore(_, _)
InsertByScore(sorted, e) ==
  IF sorted = <<>> THEN <<e>>
  ELSE IF Head(sorted).score >= e.score
       THEN <<Head(sorted)>> \o InsertByScore(Tail(sorted), e)
       ELSE <<e>> \o sorted

RECURSIVE SortByScore(_)
SortByScore(list) ==
  IF list = <<>> THEN <<>>
  ELSE InsertByScore(SortByScore(SubSeq(list, 1, Len(list) - 1)), list[Len(list)])

\* Math.max(3, Math.ceil(n * 0.3)) and Math.max(1, Math.ceil(n * 0.4))
TopCount(module, n) ==
  IF module = "humanlike" THEN Max(3, (3 * n + 9) \div 10)
  ELSE Max(1, (4 * n + 9) \div 10)

\* decisions[0] && decisions[0].move && recent.includes(move.name)
RecentlyUsed(decisionSet, recentDecisions) ==
  /\ decisionSet # <<>>
  /\ decisionSet[1].move.present
  /\ decisionSet[1].move.name \in Range(SliceLast(recentDecisions, 3))

\* weights[index], index from 0
SelectionWeight(module, decisionSet, index, recentDecisions) ==
  IF module = "humanlike"
  THEN IF RecentlyUsed(decisionSet, recentDecisions)
       THEN Weight(PowTenths(3, index), Scale, 1)
       ELSE Weight(PowTenths(8, index), Scale, 1)
  ELSE Weight(PowTenths(7, index), Scale, 1)

\* The early return taken for a single candidate as well
NoCandidatesUpToOne(given, decisions) == ~given \/ Len(decisions) <= 1

\* if (!decisions || decisions.length === 0) return null
NoCandidates(given, decisions) == ~given \/ Len(decisions) = 0

Faulted == [kind |-> "fault", scores |-> <<>>, totals |-> <<>>, pool |-> <<>>,
            weights |-> <<>>]

\* The loop over decisions: the score of every action of every candidate
ScoreTable(module, decisions, user, opponent, recentDecisions) ==
  [i \in 1..Len(decisions) |->
     [j \in 1..Len(decisions[i]) |->
        ActionScore(module, decisions[i][j], user, opponent, recentDecisions)]]

\* evaluatedDecisions, in the order of decisions
EvaluatedDecisions(decisions, scores) ==
  [i \in 1..Len(decisions) |->
     [index |-> i, score |-> SumSeq(scores[i]), decisions |-> decisions[i]]]

\* topDecisions and their weights
Ranked(module, recentDecisions, scores, evaluatedDecisions, topDecisions) ==
  [kind |-> "draw",
   scores |-> scores,
   totals |-> [i \in 1..Len(evaluatedDecisions) |-> evaluatedDecisions[i].score],
   pool |-> [k \in 1..Len(topDecisions) |-> topDecisions[k].index],
   weights |-> [k \in 1..Len(topDecisions) |->
                  SelectionWeight(module, topDecisions[k].decisions, k - 1,
                                  recentDecisions)]]

\* sort, then slice(0, topCount)
TopDecisions(module, evaluatedDecisions) ==
  SubSeq(SortByScore(evaluatedDecisions), 1,
         Min(TopCount(module, Len(evaluatedDecisions)), Len(evaluatedDecisions)))

RankHL(module, recentDecisions, scores, evaluatedDecisions) ==
  Ranked(module, recentDecisions, scores, evaluatedDecisions,
         TopDecisions(module, evaluatedDecisions))

ScoreHL(module, decisions, recentDecisions, scores) ==
  RankHL(module, recentDecisions, scores, EvaluatedDecisions(decisions, scores))

\* With the deciding side found: user = side.active[0], opponent the other
\* side's
EvaluateOn(module, decisions, recentDecisions, user, opponent) ==
  IF \E i \in 1..Len(decisions) : \E j \in 1..Len(decisions[i]) :
       ActionThrows(decisions[i][j], user, opponent)
  THEN Faulted
  ELSE ScoreHL(module, decisions, recentDecisions,
               ScoreTable(module, decisions, user, opponent, recentDecisions))

EvaluateFound(module, battle, decisions, recentDecisions, found) ==
  \* battle.sides[1 - side.n] with side undefined
  IF ~found.present THEN Faulted
  ELSE EvaluateOn(module, decisions, recentDecisions, found.side.active,
                  OtherSide(battle, found.side).active)

\* human-like-battle-ai.js and random-switch.js, up to the draw
EvaluateHL(module, battle, given, decisions, recentDecisions) ==
  IF NoCandidates(given, decisions) THEN [Faulted EXCEPT !.kind = "null"]
  ELSE EvaluateFound(module, battle, decisions, recentDecisions, FindSide(battle))

RECURSIVE MaxOf(_)
MaxOf(s) == IF Len(s) = 1 THEN s[1] ELSE Max(s[1], MaxOf(Tail(s)))

\* The phase adjustments of decide on one action's score
PhaseAdjusted(baseScore, decision, gamePhase) ==
  LET late == IF gamePhase = "late" /\ decision.type = "move"
              THEN Frac(baseScore, 11, 10) ELSE baseScore
  IN  IF gamePhase = "endgame" /\ decision.move.accuracy # 0
         /\ decision.move.accuracy < 90
      THEN Frac(late, 9, 10) ELSE late

\* The indices of keep, ascending: what Array.prototype.filter leaves
RECURSIVE Ascending(_, _, _)
Ascending(keep, i, n) ==
  IF i > n THEN <<>>
  ELSE (IF i \in keep THEN <<i>> ELSE <<>>) \o Ascending(keep, i + 1, n)

\* The filter with a threshold of maxP * 0.5
TopChoicesFromHalf(totals, maxP) ==
  Ascending({d \in 1..Len(totals) : 10 * totals[d] >= 5 * maxP}, 1, Len(totals))

\* dTable.filter(d => d.val >= threshold), threshold = maxP * 0.9; when that
\* is empty, dTable.filter(d => d.val === maxP).  Indices into decisions.
TopChoices(totals, maxP) ==
  LET n == Len(totals)
      serious == Ascending({d \in 1..n : 10 * totals[d] >= 9 * maxP}, 1, n)
  IN  IF Len(serious) = 0
      THEN Ascending({d \in 1..n : totals[d] = maxP}, 1, n)
      ELSE serious

\* Math.pow(choice.val / maxP, 3); 0 / 0 is NaN
NormalizedWeight(val, maxP) ==
  IF maxP = 0 THEN NaNWeight ELSE Weight(val, maxP, 3)

\* dTable and maxP are in hand: the serious choices and their weights
Shortlist(scores, totals, maxP, topChoices) ==
  \* topChoices[0].des with topChoices empty
  IF Len(topChoices) = 0 THEN Faulted
  ELSE [kind |-> IF Len(topChoices) = 1 THEN "direct" ELSE "draw",
        scores |-> scores,
        totals |-> totals,
        pool |-> topChoices,
        weights |-> [k \in 1..Len(topChoices) |->
                       NormalizedWeight(totals[topChoices[k]], maxP)]]

ShortlistOf(scores, totals, maxP) ==
  Shortlist(scores, totals, maxP, TopChoices(totals, maxP))

TotalsOf(scores, totals) == ShortlistOf(scores, totals, MaxOf(totals))

\* p += phase-adjusted value, over the actions of each candidate
ScoreCompetitive(decisions, values, gamePhase) ==
  TotalsOf(values,
           [d \in 1..Len(decisions) |->
              SumSeq([i \in 1..Len(decisions[d]) |->
                        PhaseAdjusted(values[d][i], decisions[d][i], gamePhase)])])

\* getDecisionValue on every action of every candidate
ValueTable(battle, decisions, side) ==
  [d \in 1..Len(decisions) |->
     [i \in 1..Len(decisions[d]) |->
        getDecisionValue(decisions[d][i], battle, side)]]

EvaluateSide(battle, decisions, found) ==
  \* analyzeGameState reads side.n with side undefined
  IF ~found.present THEN Faulted
  ELSE IF \E d \in 1..Len(decisions) : \E i \in 1..Len(decisions[d]) :
            getDecisionValueThrows(decisions[d][i], battle, found.side)
  THEN Faulted
  ELSE ScoreCompetitive(decisions, ValueTable(battle, decisions, found.side),
                        analyzeGameState(battle, found.side).gamePhase)

\* unnamed/part_000, up to the draw
EvaluateCompetitive(battle, given, decisions) ==
  IF NoCandidates(given, decisions) THEN [Faulted EXCEPT !.kind = "null"]
  ELSE EvaluateSide(battle, decisions, FindSide(battle))

Evaluate(module, battle, given, decisions, recentDecisions) ==
  IF module = "competitive" THEN EvaluateCompetitive(battle, given, decisions)
  ELSE EvaluateHL(module, battle, given, decisions, recentDecisions)

\* weight > 0
Positive(w) == ~w.nan /\ w.num > 0 /\ w.den > 0

\* The indices the loop can return at, 0 for the loop running out
Landings(weights) ==
  IF \E k \in 1..Len(weights) : weights[k].nan THEN {0}
  ELSE {k \in 1..Len(weights) : k = 1 \/ Positive(weights[k])}

\* The position in pool of the candidate decide returns; after the loop both
\* fallbacks return the first one (evaluatedDecisions[0], topChoices[0])
Chosen(ev, land) ==
  IF ev.kind = "direct" THEN 1
  ELSE IF land = 0 THEN 1 ELSE land

\* The history after a call that returns decisionSet.  human-like tracks a
\* move by its name and a switch as switch-<name>; random-switch tracks
\* moves only.  The oldest entry is shifted out above the capacity.
EvictAtCapacity(history, capacity) ==
  IF Len(history) >= capacity THEN Tail(history) ELSE history

Evict(history, capacity) ==
  IF Len(history) > capacity THEN Tail(history) ELSE history

\* What the call pushes: no element or one
TrackedIds(module, decisionSet) ==
  IF decisionSet = <<>> THEN <<>>
  ELSE IF decisionSet[1].move.present THEN <<decisionSet[1].move.name>>
  ELSE IF module = "humanlike" /\ decisionSet[1].pokemon.present
       THEN <<"switch-" \o decisionSet[1].pokemon.name>>
  ELSE <<>>

Track(module, recentDecisions, decisionSet) ==
  IF module = "humanlike"
  THEN IF decisionSet # <<>>
       THEN Evict(recentDecisions \o TrackedIds(module, decisionSet),
                  HistoryCapacity)
       ELSE recentDecisions
  ELSE IF decisionSet # <<>> /\ decisionSet[1].move.present
       THEN Evict(recentDecisions \o TrackedIds(module, decisionSet),
                  HistoryCapacityRS)
       ELSE recentDecisions

\* What decide returns: null, a TypeError (fault), or decisions[index]
NullResult == [kind |-> "null", index |-> 0, set |-> <<>>]

FaultResult == [kind |-> "fault", index |-> 0, set |-> <<>>]

Returned(decisions, index) ==
  [kind |-> "set", index |-> index, set |-> decisions[index]]

\* decide raising where it returns null
SettleRaising(ev, decisions, land) ==
  IF ev.kind \in {"null", "fault"} THEN FaultResult
  ELSE Returned(decisions, ev.pool[Chosen(ev, land)])

Settle(ev, decisions, land) ==
  IF ev.kind = "null" THEN NullResult
  ELSE IF ev.kind = "fault" THEN FaultResult
  ELSE Returned(decisions, ev.pool[Chosen(ev, land)])

(***************************************************************************)
(* The inputs.  A scenario is a battle snapshot with the option list of    *)
(* its request; the candidate sequences offered to decide are the          *)
(* sub-sequences of that list.  Side 0 is the deciding side.               *)
(***************************************************************************)
FullStats == Stats(100, 100, 100, 100, 100)

Lead == [Poke("Lead", 100, 100, <<"Water">>, FullStats, <<Surf, QuickAttack>>)
           EXCEPT !.level = 50]

Bench == Poke("Bench", 100, 100, <<"Grass">>, Stats(100, 100, 100, 100, 120),
              <<Tackle>>)

Burned == [Poke("Burned", 50, 100, <<"Fire">>, FullStats, <<Tackle, SwordsDance>>)
             EXCEPT !.status = "brn"]

Down == [Poke("Down", 0, 100, <<"Normal">>, FullStats, <<Tackle>>)
           EXCEPT !.fainted = TRUE]

Spare == Poke("Spare", 100, 100, <<"Rock">>, FullStats, <<Tackle>>)

Foe == Poke("Foe", 100, 100, <<"Fire", "Ground">>, FullStats, <<Tackle, Surf>>)

FoeMate(name) == Poke(name, 100, 100, <<"Normal">>, FullStats, <<Tackle>>)

FoeDown(name) == [FoeMate(name) EXCEPT !.hp = 0, !.fainted = TRUE]

OwnTeam(lead) == <<lead, Bench, Burned, Down, Spare>>

\* A battle of two sides; awaiting says whether side 0 has a currentRequest
Battle(awaiting, lead, foe, foeTeam, hazards) ==
  [sides |-> <<Side(0, awaiting, lead, OwnTeam(lead), {}),
               Side(1, FALSE, foe, foeTeam, hazards)>>]

FoeTeam(foe, alive) ==
  <<foe>> \o [i \in 1..3 |-> IF i < alive THEN FoeMate("Mate") ELSE FoeDown("Gone")]

Hurt(p, hp) == [p EXCEPT !.hp = hp]

Scenarios == {"early", "late", "endgame", "preview", "norequest", "nouser",
              "nofoe", "bare", "wall", "closing"}

ScenarioBattle(sc) ==
  CASE sc = "early" -> Battle(TRUE, Lead, Foe, FoeTeam(Foe, 4), {})
    [] sc = "late" ->
         Battle(TRUE, Hurt(Lead, 20), Hurt(Foe, 20), FoeTeam(Hurt(Foe, 20), 2),
                {"stealthrock"})
    [] sc = "endgame" ->
         LET foe == [Poke("Foe", 200, 200, <<"Water">>, FullStats, <<Surf>>)
                       EXCEPT !.status = "par", !.setup = TRUE]
         IN  Battle(TRUE, Hurt(Lead, 50), foe, FoeTeam(foe, 1), {"spikes"})
    [] sc = "preview" -> Battle(TRUE, NoPoke, NoPoke, FoeTeam(Foe, 4), {})
    [] sc = "norequest" -> Battle(FALSE, Lead, Foe, FoeTeam(Foe, 4), {})
    [] sc = "nouser" -> Battle(TRUE, NoPoke, Foe, FoeTeam(Foe, 4), {})
    [] sc = "nofoe" -> Battle(TRUE, Lead, NoPoke, FoeTeam(Foe, 4), {})
    [] sc = "bare" ->
         LET foe == [Foe EXCEPT !.hasTypes = FALSE, !.types = <<>>,
                                !.stats = NoStats]
             lead == [Lead EXCEPT !.stats = NoStats, !.level = 0]
         IN  Battle(TRUE, lead, foe, FoeTeam(foe, 3), {})
    [] sc = "wall" ->
         LET foe == Poke("Foe", 100, 100, <<"Rock", "Steel">>, FullStats, <<Tackle>>)
         IN  Battle(TRUE, Lead, foe, FoeTeam(foe, 4), {})
    [] sc = "closing" -> Battle(TRUE, Lead, Foe, FoeTeam(Foe, 1), {})

ScenarioOptions(sc) ==
  LET lead == ScenarioBattle(sc).sides[1].active
  IN
  CASE sc = "early" ->
         << <<MoveAction(Surf)>>, <<MoveAction(Thunder)>>,
            <<MoveAction(QuickAttack)>>, <<MoveAction(SwordsDance)>>,
            <<SwitchAction(Bench)>>, <<SwitchAction(Down)>>,
            <<SwitchAction(lead)>> >>
    [] sc = "late" ->
         << <<MoveAction(Surf)>>, <<MoveAction(QuickAttack)>>,
            <<MoveAction(Recover)>>, <<MoveAction(StealthRock)>>,
            <<SwitchAction(Bench)>>, <<SwitchAction(Burned)>>, <<TeamAction>> >>
    [] sc = "endgame" ->
         << <<MoveAction(Thunder)>>, <<MoveAction(Toxic)>>, <<MoveAction(Tackle)>>,
            <<PassAction>>, << >>, <<SwitchAction(Down)>>,
            <<MoveAction(Surf), SwitchAction(Bench)>> >>
    [] sc = "preview" ->
         << <<TeamAction>>, <<TeamAction, TeamAction>>, <<MoveAction(Surf)>>,
            <<PassAction>> >>
    [] sc = "norequest" -> << <<MoveAction(Surf)>>, <<SwitchAction(Bench)>> >>
    [] sc = "nouser" ->
         << <<MoveAction(Toxic)>>, <<MoveAction(Surf)>>, <<SwitchAction(Bench)>>,
            <<TeamAction>> >>
    [] sc = "nofoe" ->
         << <<MoveAction(Surf)>>, <<MoveAction(Toxic)>>, <<SwitchAction(Bench)>>,
            <<SwitchAction(Down)>> >>
    [] sc = "bare" ->
         << <<MoveAction(Surf)>>, <<MoveAction(Thunder)>>, <<SwitchAction(Bench)>>,
            <<SwitchAction(Burned)>>, <<SwitchAction(NoPoke)>>,
            <<SwitchAction(Down)>> >>
    [] sc = "wall" ->
         << <<MoveAction(Tackle)>>, <<MoveAction(Surf)>>, <<SwitchAction(Bench)>> >>
    [] sc = "closing" ->
         << <<MoveAction(QuickAttack)>>, <<MoveAction(Tackle)>>,
            <<MoveAction(Surf)>> >>

\* The sub-sequence of list at the positions of keep
Picked(list, keep) == [k \in 1..Len(keep) |-> list[keep[k]]]

SubLists(list) ==
  {Picked(list, Ascending(chosen, 1, Len(list))) : chosen \in SUBSET (1..Len(list))}

(***************************************************************************)
(* The state machine: one module instance built by setup() and the decide  *)
(* calls made on it.  part_000 keeps no history and no turn counter: for   *)
(* it recentDecisions and turnCount stay as they start.                    *)
(*   recorded  every identifier pushed so far, in order (history variable) *)
(*   last      the latest call: its inputs, what it computed and returned  *)
(*   peer      a second instance built by another setup() call of the same *)
(*             file: its recentDecisions, turnCount and latest call        *)
(*   lookup    a getTypeEffectiveness call: its arguments and its values   *)
(***************************************************************************)
VARIABLES module, recentDecisions, turnCount, recorded, last, peer, lookup

vars == <<module, recentDecisions, turnCount, recorded, last, peer, lookup>>

Modules == {"humanlike", "randomsw", "competitive"}

MaxTurns == 7

MaxWarm == 3

NoCall ==
  [called |-> FALSE, scored |-> FALSE, scenario |-> "early", given |-> FALSE,
   decisions |-> <<>>, land |-> 0, kind |-> "null", result |-> NullResult,
   scores |-> <<>>, totals |-> <<>>, pool |-> <<>>, weights |-> <<>>,
   before |-> <<>>]

\* The latest call of the second instance
NoPeerCall ==
  [called |-> FALSE, given |-> FALSE, decisions |-> <<>>, land |-> 0,
   before |-> <<>>, result |-> NullResult]

\* setup() again: let recentDecisions = []; let turnCount = 0
FreshPeer == [recentDecisions |-> <<>>, turnCount |-> 0, last |-> NoPeerCall]

NoLookup ==
  [called |-> FALSE, moveType |-> "", targetTypes |-> <<>>,
   humanlike |-> 0, randomsw |-> 0, competitive |-> 0, swapped |-> 0]

Init ==
  /\ module \in Modules
  /\ recentDecisions = <<>>
  /\ turnCount = 0
  /\ recorded = <<>>
  /\ last = NoCall
  /\ peer = FreshPeer
  /\ lookup = NoLookup

\* The draws open to a call: a landing index when the loop is reached
Draws(ev) == IF ev.kind = "draw" THEN Landings(ev.weights) ELSE {1}

\* The end of a call: the history is tracked and the call recorded
Return(sc, given, decisions, land, scored, ev, result, tracks) ==
  /\ turnCount' = IF module = "competitive" THEN turnCount ELSE turnCount + 1
  /\ recentDecisions' = IF tracks
                        THEN Track(module, recentDecisions, result.set)
                        ELSE recentDecisions
  /\ recorded' = IF tracks
                 THEN recorded \o TrackedIds(module, result.set)
                 ELSE recorded
  /\ last' = [called |-> TRUE, scored |-> scored, scenario |-> sc,
              given |-> given, decisions |-> decisions, land |-> land,
              kind |-> ev.kind, result |-> result, scores |-> ev.scores,
              totals |-> ev.totals, pool |-> ev.pool,
              weights |-> ev.weights, before |-> recentDecisions]
  /\ UNCHANGED <<module, peer, lookup>>

\* decide with the turn counter taken into the choice: on odd turns the draw
\* is ignored and the best-ranked candidate returned
DecideByTurn(sc, given, decisions, scored) ==
  /\ module # "competitive" => turnCount < MaxTurns
  /\ \E ev \in {Evaluate(module, ScenarioBattle(sc), given, decisions,
                         recentDecisions)} :
       \E land \in Draws(ev) :
         \E result \in {Settle(ev, decisions,
                                IF turnCount % 2 = 1 THEN 1 ELSE land)} :
           Return(sc, given, decisions, land, scored, ev, result,
                  module # "competitive" /\ result.kind = "set")

\* BattleModule.decide(battle, decisions) on the scenario's battle, for
\* every draw open to it
Decide(sc, given, decisions, scored) ==
  /\ module # "competitive" => turnCount < MaxTurns
  /\ \E ev \in {Evaluate(module, ScenarioBattle(sc), given, decisions,
                         recentDecisions)} :
       \E land \in Draws(ev) :
         \E result \in {Settle(ev, decisions, land)} :
           Return(sc, given, decisions, land, scored, ev, result,
                  module # "competitive" /\ result.kind = "set")

\* Spec: a long run of calls on the request of one turn
TrackOptions ==
  << <<MoveAction(Surf)>>, <<SwitchAction(Bench)>>, <<TeamAction>> >>

\* decisions is absent (given = FALSE) or a sequence
Offers(options) ==
  {[given |-> TRUE, decisions |-> d] : d \in SubLists(options)}
    \cup {[given |-> FALSE, decisions |-> <<>>]}

Next ==
  \E o \in Offers(TrackOptions) : Decide("early", o.given, o.decisions, FALSE)

Spec == Init /\ [][Next]_vars

\* SpecScore: up to MaxWarm calls that each offer one move, then one call
\* on any scenario with any sub-sequence of its options
Warm ==
  /\ ~last.scored
  /\ turnCount < MaxWarm
  /\ Decide("early", TRUE, << <<MoveAction(Surf)>> >>, FALSE)

Query ==
  /\ ~last.scored
  /\ \E sc \in Scenarios : \E o \in Offers(ScenarioOptions(sc)) :
       Decide(sc, o.given, o.decisions, TRUE)

NextScore == Warm \/ Query

SpecScore == Init /\ [][NextScore]_vars

(***************************************************************************)
(* SpecPair: two instances of the same file, each built by its own call of *)
(* setup(), take decide calls in any order on the same battle.  The first  *)
(* instance is the one of the variables recentDecisions, turnCount, last;  *)
(* the second one is peer.                                                 *)
(***************************************************************************)
MaxPairTurns == 3

PairOptions == << <<MoveAction(Surf)>>, <<SwitchAction(Bench)>> >>

\* One binding of recentDecisions for all instances, as a declaration at
\* the top level of the file would give
BindingOfFile(instance) == 1

\* The binding of recentDecisions that the decide of an instance closes
\* over: setup() runs let recentDecisions = [] at each call, so each
\* instance has its own
Binding(instance) == instance

\* The history the second instance's decide reads
PeerHistory == IF Binding(2) = 1 THEN recentDecisions ELSE peer.recentDecisions

\* The end of a call on the second instance
PeerReturn(given, decisions, land, result, history) ==
  /\ peer' = [recentDecisions |->
                IF Binding(2) = 1 THEN peer.recentDecisions ELSE history,
              turnCount |-> IF module = "competitive" THEN peer.turnCount
                            ELSE peer.turnCount + 1,
              last |-> [called |-> TRUE, given |-> given,
                        decisions |-> decisions, land |-> land,
                        before |-> PeerHistory, result |-> result]]
  /\ recentDecisions' = IF Binding(2) = 1 THEN history ELSE recentDecisions
  /\ UNCHANGED <<module, turnCount, recorded, last, lookup>>

\* decide on the second instance
PeerDecide(given, decisions) ==
  /\ module # "competitive" => peer.turnCount < MaxPairTurns
  /\ \E ev \in {Evaluate(module, ScenarioBattle("early"), given, decisions,
                         PeerHistory)} :
       \E land \in Draws(ev) :
         \E result \in {Settle(ev, decisions, land)} :
           PeerReturn(given, decisions, land, result,
                      IF module # "competitive" /\ result.kind = "set"
                      THEN Track(module, PeerHistory, result.set)
                      ELSE PeerHistory)

OwnCall ==
  /\ turnCount < MaxPairTurns
  /\ \E o \in Offers(PairOptions) : Decide("early", o.given, o.decisions, FALSE)

PeerCall == \E o \in Offers(PairOptions) : PeerDecide(o.given, o.decisions)

NextPair == OwnCall \/ PeerCall

SpecPair == Init /\ [][NextPair]_vars

(***************************************************************************)
(* SpecPenalty: decide calls on a battle against a Rock/Steel combatant,   *)
(* each offering one candidate of PenaltyOptions, or all of them: the      *)
(* history runs over every sequence of their identifiers.                  *)
(***************************************************************************)
PenaltyOptions == ScenarioOptions("wall")

Feed ==
  \E k \in 1..Len(PenaltyOptions) :
    Decide("wall", TRUE, <<PenaltyOptions[k]>>, FALSE)

FeedAll == Decide("wall", TRUE, PenaltyOptions, FALSE)

NextPenalty == Feed \/ FeedAll

SpecPenalty == Init /\ [][NextPenalty]_vars

(***************************************************************************)
(* The type lookup on its own.  The attacking type is one of the chart,    *)
(* a name the chart does not have, or absent; the target has one or two    *)
(* types, of the chart or not.  lookup holds the value each file returns,  *)
(* and the value for the target types in the other order.                  *)
(***************************************************************************)
AttackTypes == DOMAIN typeChart \cup {"Sound", ""}

TargetTypes == DOMAIN typeChart \cup {"Bird"}

TargetLists ==
  {<<a>> : a \in TargetTypes} \cup {<<a, b>> : a \in TargetTypes, b \in TargetTypes}

Reversed(s) == [k \in 1..Len(s) |-> s[Len(s) + 1 - k]]

InitTypes ==
  /\ module \in Modules
  /\ recentDecisions = <<>>
  /\ turnCount = 0
  /\ recorded = <<>>
  /\ last = NoCall
  /\ peer = FreshPeer
  /\ \E moveType \in AttackTypes : \E targetTypes \in TargetLists :
       lookup = [NoLookup EXCEPT !.moveType = moveType,
                                 !.targetTypes = targetTypes]

TypeLookup ==
  /\ lookup' =
       [lookup EXCEPT
          !.called = TRUE,
          !.humanlike = getTypeEffectiveness(lookup.moveType, lookup.targetTypes),
          !.randomsw = getTypeEffectiveness(lookup.moveType, lookup.targetTypes),
          !.competitive = getTypeEffectivenessC(lookup.moveType, lookup.targetTypes),
          !.swapped = getTypeEffectiveness(lookup.moveType,
                                           Reversed(lookup.targetTypes))]
  /\ UNCHANGED <<module, recentDecisions, turnCount, recorded, last, peer>>

NextTypes == TypeLookup

SpecTypes == InitTypes /\ [][NextTypes]_vars

(***************************************************************************)
(* SpecRank: up to MaxRehearse calls that each offer one move, then one    *)
(* call offering a run of consecutive candidates of CrowdOptions, up to    *)
(* all 11 of them, on the battle of "early".  Equal candidates stand at    *)
(* different places of the list, so that equal scores meet at the cut.     *)
(***************************************************************************)
MaxRehearse == 3

CrowdOptions ==
  << <<MoveAction(Tackle)>>, <<MoveAction(Tackle)>>, <<MoveAction(Tackle)>>,
     <<MoveAction(Tackle)>>, <<MoveAction(Surf)>>, <<PassAction>>,
     <<MoveAction(Thunder)>>, <<SwitchAction(Bench)>>,
     <<MoveAction(QuickAttack)>>, <<MoveAction(SwordsDance)>>,
     <<MoveAction(Surf)>> >>

\* The runs of consecutive candidates of list
Runs(list) ==
  {SubSeq(list, first, final) :
     first \in 1..Len(list), final \in 1..Len(list)} \ {<<>>}

Rehearse ==
  /\ ~last.scored
  /\ turnCount < MaxRehearse
  /\ \E move \in {Tackle, Surf} :
       Decide("early", TRUE, << <<MoveAction(move)>> >>, FALSE)

Pick ==
  /\ ~last.scored
  /\ \E decisions \in Runs(CrowdOptions) : Decide("early", TRUE, decisions, TRUE)

NextRank == Rehearse \/ Pick

SpecRank == Init /\ [][NextRank]_vars

(***************************************************************************)
(* Properties.  last holds the latest call, last.before the history it     *)
(* started from.                                                           *)
(***************************************************************************)
Offered == last.called /\ last.given /\ Len(last.decisions) > 0

LastBattle == ScenarioBattle(last.scenario)

\* Exactly one side awaits a request and both active combatants are present
\* with 0 < hp <= maxhp
WellFormed(battle) ==
  /\ Cardinality({i \in 1..2 : battle.sides[i].currentRequest}) = 1
  /\ \A i \in 1..2 :
       LET p == battle.sides[i].active
       IN  p.present /\ 0 < p.hp /\ p.hp <= p.maxhp

\* C1: on a well-formed snapshot and a non-empty candidate sequence, every
\* variant's decide returns, for every draw, one element of the sequence it
\* was offered: never null, never a fault, never another set.
ReturnsOfferedSet ==
  (Offered /\ WellFormed(LastBattle)) =>
    /\ last.result.kind = "set"
    /\ \E i \in 1..Len(last.decisions) :
         last.result.index = i /\ last.result.set = last.decisions[i]

\* C1 happens: a draw among several candidates lands past the first
ReturnsOfferedSetSeen ==
  /\ Offered /\ WellFormed(LastBattle)
  /\ Len(last.decisions) >= 3
  /\ last.kind = "draw" /\ last.land >= 2
  /\ last.result.kind = "set"

\* C2: decide never fails on missing or partial data: offered a non-empty
\* candidate sequence it returns a candidate, whatever the snapshot lacks.
NeverFails == Offered => last.result.kind = "set"

\* C3: with an absent or empty candidate sequence decide returns null and the
\* history is as it was before the call.
NoCandidatesGivesNull ==
  (last.called /\ (~last.given \/ last.decisions = <<>>)) =>
    /\ last.result = NullResult
    /\ recentDecisions = last.before

\* C3 happens: an empty sequence offered to a module with a history
NoCandidatesGivesNullSeen ==
  /\ last.called /\ last.given /\ last.decisions = <<>>
  /\ Len(last.before) >= 2
  /\ last.result = NullResult

Capacity == IF module = "humanlike" THEN HistoryCapacity ELSE HistoryCapacityRS

\* C4: the history never exceeds its capacity and is exactly the most recent
\* recorded identifiers, in the order they were recorded.
HistoryIsRecentWindow ==
  module # "competitive" =>
    /\ Len(recentDecisions) <= Capacity
    /\ recentDecisions = SliceLast(recorded, Capacity)

\* C4 happens: an identifier has been evicted
HistoryIsRecentWindowSeen ==
  /\ module # "competitive"
  /\ Len(recorded) > Capacity
  /\ Len(recentDecisions) = Capacity
  /\ recorded[1] # recorded[Len(recorded)]

\* The identifier of an action: the move's name, or switch-<name>
IdentifierOf(decision) ==
  IF decision.type = "move" THEN decision.move.name
  ELSE "switch-" \o decision.pokemon.name

\* C5: in human-like-battle-ai and random-switch, a call that returns a set
\* whose first action is a move or a switch appends exactly that action's
\* identifier to the history (and evicts at most the oldest entry).
RecordsChosenAction ==
  (/\ last.called /\ module # "competitive"
   /\ last.result.kind = "set" /\ last.result.set # <<>>
   /\ last.result.set[1].type \in {"move", "switch"}) =>
    recentDecisions =
      SliceLast(last.before \o <<IdentifierOf(last.result.set[1])>>, Capacity)

Scored == last.called /\ last.result.kind = "set"

\* C6: the competitive decide returns, for every draw, a candidate whose
\* aggregate score is at least 0.9 times the largest aggregate score.
ReturnsNearBest ==
  (Scored /\ module = "competitive") =>
    \A d \in 1..Len(last.totals) :
      10 * last.totals[last.result.index] >= 9 * last.totals[d]

\* C6 happens: the draw lands past the first serious choice while a candidate
\* with a positive score is left out
ReturnsNearBestSeen ==
  /\ Scored /\ module = "competitive"
  /\ last.kind = "draw" /\ last.land >= 2
  /\ \E d \in 1..Len(last.totals) :
       /\ last.totals[d] > 0
       /\ \A k \in 1..Len(last.pool) : last.pool[k] # d

\* The acting combatant of the latest call
LastUser == FindSide(LastBattle).side.active

\* A switch whose target is fainted or is the active combatant
InvalidSwitch(decision) ==
  /\ decision.type = "switch"
  /\ decision.pokemon.present
  /\ decision.pokemon.fainted \/ SamePoke(decision.pokemon, LastUser)

InvalidSwitchSet(decisionSet) ==
  /\ decisionSet # <<>>
  /\ \A j \in 1..Len(decisionSet) : InvalidSwitch(decisionSet[j])

\* C7: decide never returns an invalid switch candidate when another offered
\* candidate has a strictly positive score, in any variant and for any draw.
InvalidSwitchExcluded ==
  (Scored /\ \E d \in 1..Len(last.totals) : last.totals[d] > 0) =>
    ~InvalidSwitchSet(last.result.set)

HasTeamPick(decisionSet) ==
  \E j \in 1..Len(decisionSet) : decisionSet[j].type = "team"

\* C8: when a set with a TeamPick is offered along with sets of moves,
\* switches or passes, decide returns a set with a TeamPick, for every draw.
TeamPickChosen ==
  (/\ Scored
   /\ \E d \in 1..Len(last.decisions) : HasTeamPick(last.decisions[d])
   /\ \E d \in 1..Len(last.decisions) : ~HasTeamPick(last.decisions[d])) =>
    HasTeamPick(last.result.set)

ScoresZero(decision) ==
  \/ InvalidSwitch(decision)
  \/ /\ module = "competitive"
     /\ \/ decision.type = "switch" /\ ~decision.pokemon.present
        \/ /\ decision.type = "move"
           /\ ~OtherSide(LastBattle, FindSide(LastBattle).side).active.present

WeightsPositive ==
  (last.called /\ last.kind = "draw") =>
    \A k \in 1..Len(last.weights) : Positive(last.weights[k])

\* C11: instances are independent: a call on one instance leaves the other
\* instance's history as it was, and with it the penalties and the outcome
\* of every call that could follow on that other instance.
InstancesIndependent ==
  [][/\ peer' # peer =>
          /\ recentDecisions' = recentDecisions
          /\ getRepetitionPenalty("Surf", recentDecisions')
               = getRepetitionPenalty("Surf", recentDecisions)
          /\ Evaluate(module, ScenarioBattle("early"), TRUE, PairOptions,
                      recentDecisions')
               = Evaluate(module, ScenarioBattle("early"), TRUE, PairOptions,
                          recentDecisions)
     /\ (recentDecisions' # recentDecisions \/ last' # last) =>
          peer.recentDecisions' = peer.recentDecisions]_vars

\* C11 happens: both instances have recorded, and their histories differ
InstancesIndependentSeen ==
  /\ module # "competitive"
  /\ last.called /\ peer.last.called
  /\ Len(recentDecisions) >= 2 /\ Len(peer.recentDecisions) >= 2
  /\ recentDecisions # peer.recentDecisions

InWindow(history, id) ==
  Cardinality({k \in 1..Len(history) : k > Len(history) - 4 /\ history[k] = id})

\* 1.0, 0.5, 0.2, 0.1 in tenths, by the number of occurrences
PenaltyTable(occurrences) ==
  CASE occurrences = 0 -> 10
    [] occurrences = 1 -> 5
    [] occurrences = 2 -> 2
    [] occurrences >= 3 -> 1

\* C13: in human-like-battle-ai the multiplier of a move depends only on how
\* often its name occurs in the 4 most recent entries (1.0, 0.5, 0.2, 0.1 for
\* 0, 1, 2, 3 or more), and the move's score is its unpenalised score times
\* the multiplier, floored at 1.
PenaltyByOccurrences ==
  (Scored /\ module = "humanlike") =>
    \A i \in 1..Len(last.decisions) : \A j \in 1..Len(last.decisions[i]) :
      LET decision == last.decisions[i][j]
          multiplier == PenaltyTable(InWindow(last.before, decision.move.name))
          unpenalised ==
            MoveRawScore(decision.move, LastUser,
                         OtherSide(LastBattle, FindSide(LastBattle).side).active)
      IN  decision.type = "move" =>
            /\ getRepetitionPenalty(decision.move.name, last.before) = multiplier
            /\ last.scores[i][j]
                 = IF unpenalised * multiplier < 10 * Num(1) THEN Num(1)
                   ELSE (unpenalised * multiplier) \div 10

\* C13 happens: a move used 3 times in the window, and once before it, is
\* held at the floor
PenaltyByOccurrencesSeen ==
  /\ Scored /\ module = "humanlike"
  /\ last.decisions = << <<MoveAction(Tackle)>> >>
  /\ Len(last.before) = HistoryCapacity
  /\ last.before[2] = "Tackle"
  /\ InWindow(last.before, "Tackle") = 3
  /\ last.scores[1][1] = Num(1)

\* The identifiers a history can hold
Identifiers == {"Tackle", "Surf", "switch-Bench"}

\* C14: in random-switch, when the 3 most recent entries are all the same
\* name the multiplier for that name is at most 0.1, and for a name that does
\* not occur in the window it is 1.0.
StrictestAfterThree ==
  module = "randomsw" =>
    \A id \in Identifiers :
      LET window == SliceLast(recentDecisions, 3)
      IN  /\ (Len(window) = 3 /\ \A k \in 1..3 : window[k] = id) =>
               getRepetitionPenaltyRS(id, recentDecisions) <= 1
          /\ (\A k \in 1..Len(window) : window[k] # id) =>
               getRepetitionPenaltyRS(id, recentDecisions) = 10

\* The deciding side of the latest call
LastSide == FindSide(LastBattle).side

\* The phase by the smaller number of combatants left on either side
PhaseByCount(battle, side) ==
  LET left == Min(Alive(side.pokemon), Alive(OtherSide(battle, side).pokemon))
  IN  IF left <= 1 THEN "endgame"
      ELSE IF left <= 2 THEN "late"
      ELSE IF left <= 3 THEN "mid"
      ELSE "early"

\* C15: in part_000 a move with priority > 0 scores 40 more than it would
\* without its priority when the phase is late or endgame or the user is
\* below half health, and no more otherwise; the phase is the most severe
\* one reached by either side.
PriorityBonusByPhase ==
  (Scored /\ module = "competitive") =>
    /\ analyzeGameState(LastBattle, LastSide).gamePhase
         = PhaseByCount(LastBattle, LastSide)
    /\ \A i \in 1..Len(last.decisions) : \A j \in 1..Len(last.decisions[i]) :
         LET decision == last.decisions[i][j]
             plain == [decision EXCEPT !.move.priority = 0]
             bonus == last.scores[i][j]
                        - getDecisionValue(plain, LastBattle, LastSide)
         IN  (decision.type = "move" /\ decision.move.priority > 0) =>
               bonus = IF \/ PhaseByCount(LastBattle, LastSide)
                               \in {"late", "endgame"}
                           \/ 2 * LastUser.hp < LastUser.maxhp
                        THEN Num(40) ELSE 0

\* The chart's factor of one attacking type against one target type, in
\* halves; 2 (neutral) when the chart has no entry
FactorOf(moveType, type) ==
  IF moveType \in DOMAIN typeChart /\ type \in DOMAIN typeChart[moveType]
  THEN typeChart[moveType][type]
  ELSE 2

\* The product of the factors over one or two target types, in quarters
ProductOf(moveType, targetTypes) ==
  IF Len(targetTypes) = 1
  THEN 2 * FactorOf(moveType, targetTypes[1])
  ELSE FactorOf(moveType, targetTypes[1]) * FactorOf(moveType, targetTypes[2])

\* C16: for one or two target types getTypeEffectiveness returns the product
\* of the chart's factors, 1 for an unknown attacking type or a missing
\* entry, always one of 0, 0.25, 0.5, 1, 2, 4 (here in quarters); the order
\* of the target types does not matter and the three files agree.
EffectivenessIsProduct ==
  lookup.called =>
    /\ lookup.humanlike = ProductOf(lookup.moveType, lookup.targetTypes)
    /\ lookup.humanlike \in {0, 1, 2, 4, 8, 16}
    /\ lookup.moveType \notin DOMAIN typeChart => lookup.humanlike = EffUnit
    /\ lookup.swapped = lookup.humanlike
    /\ lookup.randomsw = lookup.humanlike
    /\ lookup.competitive = lookup.humanlike
    /\ (lookup.moveType = "Water" /\ lookup.targetTypes = <<"Fire">>)
         => lookup.humanlike = 2 * EffUnit
    /\ (lookup.moveType = "Fire" /\ lookup.targetTypes = <<"Water">>)
         => 2 * lookup.humanlike = EffUnit
    /\ (lookup.moveType = "Water" /\ lookup.targetTypes = <<"Fire", "Ground">>)
         => lookup.humanlike = 4 * EffUnit

EffectivenessIsProductSeen ==
  /\ lookup.called
  /\ Len(lookup.targetTypes) = 2
  /\ lookup.targetTypes[1] # lookup.targetTypes[2]
  /\ FactorOf(lookup.moveType, lookup.targetTypes[1]) = 2
  /\ FactorOf(lookup.moveType, lookup.targetTypes[2]) = 4
  /\ lookup.competitive = 2 * EffUnit

\* C17: in human-like-battle-ai, once the 4 most recent entries are all
\* other than an identifier its multiplier is 1.0 again, whatever the older
\* entries are: of the up to 6 entries kept, the 2 oldest change no
\* multiplier, and a move absent from the 4 most recent scores unpenalised.
PenaltyWearsOff ==
  module = "humanlike" =>
    /\ \A id \in Identifiers :
         /\ (/\ Len(recentDecisions) >= 4
             /\ \A k \in 1..Len(recentDecisions) :
                  k > Len(recentDecisions) - 4 => recentDecisions[k] # id)
              => getRepetitionPenalty(id, recentDecisions) = 10
         /\ Len(recentDecisions) = HistoryCapacity =>
              \A a \in Identifiers : \A b \in Identifiers :
                getRepetitionPenalty(id, <<a, b>> \o SliceLast(recentDecisions, 4))
                  = getRepetitionPenalty(id, recentDecisions)
    /\ Scored =>
         \A i \in 1..Len(last.decisions) : \A j \in 1..Len(last.decisions[i]) :
           LET decision == last.decisions[i][j]
           IN  (/\ decision.type = "move"
                /\ Len(last.before) >= 4
                /\ InWindow(last.before, decision.move.name) = 0)
                 => last.scores[i][j]
                      = Max(Num(1),
                            MoveRawScore(decision.move, LastUser,
                              OtherSide(LastBattle, LastSide).active))

\* C17 happens: Surf fills the 2 oldest of 6 entries, the 4 after them are
\* all other identifiers, and Surf is scored without a penalty
PenaltyWearsOffSeen ==
  /\ Scored /\ module = "humanlike"
  /\ last.decisions = << <<MoveAction(Surf)>> >>
  /\ Len(last.before) = HistoryCapacity
  /\ last.before[1] = "Surf" /\ last.before[2] = "Surf"
  /\ InWindow(last.before, "Surf") = 0
  /\ last.scores[1][1] > Num(1)
  /\ last.scores[1][1]
       = MoveRawScore(Surf, LastUser, OtherSide(LastBattle, LastSide).active)

\* The place of candidate i by aggregate score, highest first, equal scores
\* in the order of the input
RankOf(totals, i) ==
  1 + Cardinality({j \in 1..Len(totals) :
                     \/ totals[j] > totals[i]
                     \/ totals[j] = totals[i] /\ j < i})

\* The least integer that is at least 0.3 * n
CeilOfThreeTenths(n) == CHOOSE c \in 0..n : 10 * c >= 3 * n /\ 10 * (c - 1) < 3 * n

\* Whatever the draw, the returned candidate is ranked among the
\* max(3, ceil(0.3 * n)) highest aggregate scores
ReturnsTopRanked ==
  (Scored /\ module = "humanlike") =>
    RankOf(last.totals, last.result.index)
      <= Max(3, CeilOfThreeTenths(Len(last.decisions)))

\* A ranked candidate whose first action is a move named in the 3 most
\* recent entries weighs strictly less than it would with no recent use
RecentWeighsLess ==
  (Scored /\ module = "humanlike") =>
    \A k \in 1..Len(last.pool) :
      LET decisionSet == last.decisions[last.pool[k]]
      IN  (/\ decisionSet # <<>>
           /\ decisionSet[1].type = "move"
           /\ \E h \in 1..Len(last.before) :
                /\ h > Len(last.before) - 3
                /\ last.before[h] = decisionSet[1].move.name)
            => last.weights[k].num
                 < SelectionWeight(module, decisionSet, k - 1, <<>>).num

\* C18: in human-like-battle-ai decide only returns a candidate ranked among
\* the max(3, ceil(0.3 * n)) highest aggregate scores, equal scores in input
\* order, for every draw; and a ranked candidate whose first action is a move
\* named in the 3 most recent history entries gets a strictly smaller weight
\* than the same-ranked candidate would get if not recently used.
TopRankedAndRecentWeighsLess == ReturnsTopRanked /\ RecentWeighsLess

====
